---- MODULE Spec2Model ----
(***************************************************************************)
(* Model of the MVN generic containers: the separate-chaining hash map     *)
(* (src/source/mvn-hashmap.c) and the dynamic array list                   *)
(* (src/source/mvn-list.c).                                                *)
(***************************************************************************)
EXTENDS Integers, Naturals, Sequences, FiniteSets, TLC

\* the null pointer; entry-node addresses are 1, 2, ...
NULL == 0

(***************************************************************************)
(* size_t arithmetic of the FNV-1a hash: a 64-bit word kept as 8 base-256  *)
(* limbs, least significant first, so that products wrap mod 2^64.         *)
(***************************************************************************)
Limbs == 8
LimbBase == 256

RECURSIVE XorBits(_, _)
XorBits(x, y) ==
  IF x = 0 /\ y = 0 THEN 0
  ELSE (((x % 2) + (y % 2)) % 2) + 2 * XorBits(x \div 2, y \div 2)

\* FNV_OFFSET_BASIS = 2166136261 = 0x811C9DC5
FNV_OFFSET_BASIS == <<197, 157, 28, 129, 0, 0, 0, 0>>
\* FNV_PRIME = 16777619 = 0x01000193
FNV_PRIME == <<147, 1, 0, 1, 0, 0, 0, 0>>

RECURSIVE ColSum(_, _, _, _)
ColSum(a, b, k, i) == IF i > k THEN 0 ELSE a[i] * b[k - i + 1] + ColSum(a, b, k, i + 1)

RECURSIVE MulFrom(_, _, _, _)
MulFrom(a, b, k, carry) ==
  IF k > Limbs THEN << >>
  ELSE LET s == carry + ColSum(a, b, k, 1)
       IN  <<s % LimbBase>> \o MulFrom(a, b, k + 1, s \div LimbBase)

\* a * b mod 2^64
MulWord(a, b) == MulFrom(a, b, 1, 0)

RECURSIVE FnvFrom(_, _)
FnvFrom(h, s) ==
  IF s = << >> THEN h
  ELSE FnvFrom(MulWord([h EXCEPT ![1] = XorBits(@, Head(s))], FNV_PRIME), Tail(s))

\* the bytes of a C string before its NUL terminator
RECURSIVE DecDigits(_)
DecDigits(n) == IF n < 10 THEN <<48 + n>> ELSE DecDigits(n \div 10) \o <<48 + (n % 10)>>

\* keys used by the map scenarios: "a", "b", "c" and snprintf("key%d", i)
MapKeys == {"a", "b", "c"}
MaxFill == 50
FillKey(i) == "key" \o ToString(i)
KeyBytes ==
  [k \in MapKeys \cup {FillKey(i) : i \in 0..MaxFill} |->
     CASE k = "a" -> <<97>>
       [] k = "b" -> <<98>>
       [] k = "c" -> <<99>>
       [] OTHER   -> <<107, 101, 121>> \o DecDigits(CHOOSE i \in 0..MaxFill : FillKey(i) = k)]

hash_string(key) == FnvFrom(FNV_OFFSET_BASIS, KeyBytes[key])

RECURSIVE ModFrom(_, _, _, _)
ModFrom(h, m, i, acc) ==
  IF i = 0 THEN acc ELSE ModFrom(h, m, i - 1, (acc * LimbBase + h[i]) % m)

AllKeys == MapKeys \cup {FillKey(i) : i \in 0..MaxFill}

\* hash_string of every key, computed once
KeyHash == [k \in AllKeys |-> hash_string(k)]

\* hash_string(key) % m
HashMod(key, m) == ModFrom(KeyHash[key], m, Limbs, 0)

(***************************************************************************)
(* Hash map state.  buckets[i+1] is the chain of bucket i, head first, as  *)
(* a sequence of entry-node addresses; node[a] is the entry at address a   *)
(* (its key string and its value blob are owned by, and allocated with,    *)
(* that node).  absMap and last are observers: the abstract map of the     *)
(* successful set/delete calls so far, and the last call with its result.  *)
(***************************************************************************)
VARIABLES bucket_count, buckets, length, node, absMap, last

\* the list under test (mvn-list.c): data[i] is slot i-1 of the buffer,
\* Len(data) = capacity; fillCap, fillN, fillI: the insertion loop of the
\* resize test (initial capacity, number of keys, next key index)
VARIABLES data, llength, capacity, fillCap, fillN, fillI

\* item_size of the list under test, and the list returned by the last
\* mvn_list_slice / concat / clone call (cfrom): its slots, length,
\* capacity and data buffer (cbuf = NoBuf for a NULL result, ABuf when it
\* is the buffer of the list under test)
VARIABLES isize, cdata, clength, ccapacity, cbuf, cfrom

mapVars == <<bucket_count, buckets, length, node, absMap, last>>
listVars == <<data, llength, capacity>>
fillVars == <<fillCap, fillN, fillI>>
copyVars == <<isize, cdata, clength, ccapacity, cbuf, cfrom>>
vars == <<bucket_count, buckets, length, node, absMap, last, data, llength, capacity,
          fillCap, fillN, fillI, isize, cdata, clength, ccapacity, cbuf, cfrom>>

\* buffer identities of the list under test and of a freshly allocated list
NoBuf == 0
ABuf == 1
NewBuf == 2

\* no list returned yet; item_size of the lists built by the tests
CopyIdle ==
  /\ isize = 4 /\ cdata = << >> /\ clength = 0 /\ ccapacity = 0
  /\ cbuf = NoBuf /\ cfrom = "none"

MVN_HMAP_DEFAULT_CAPACITY == 16
MVN_HMAP_GROWTH_FACTOR == 2

\* bounds of the map scenarios
MapVals == {1, 2}
MapInitCaps == {0, 1, 3}
MaxAddr == 3

\* the addresses malloc may return for entry nodes
Heap == 1..MaxAddr

\* a threshold one entry higher
LoadLimitLate(bc) == (3 * bc) \div 4 + 1

\* a threshold one entry lower
LoadLimitEarly(bc) == (3 * bc) \div 4 - 1

\* (size_t)((double)bucket_count * MVN_HMAP_LOAD_FACTOR), load factor 0.75
LoadLimit(bc) == (3 * bc) \div 4

\* hash_string(key) % m for the bucket counts the scenarios reach, computed once
MaxTableBc == 128
IndexTable == [k \in AllKeys |-> [m \in 1..MaxTableBc |-> HashMod(k, m)]]

\* bucket index of a key under bc buckets (0-based)
BucketIndex(key, bc) == IF bc <= MaxTableBc THEN IndexTable[key][bc] ELSE HashMod(key, bc)

RECURSIVE Flatten(_)
Flatten(s) == IF s = << >> THEN << >> ELSE Head(s) \o Flatten(Tail(s))

\* the entries in the order the map's loops walk them: bucket by bucket,
\* each chain from its head
Walk(bk) == Flatten(bk)

RECURSIVE RelinkFrom(_, _, _, _)
RelinkFrom(nb, ws, nd, bc) ==
  IF ws = << >> THEN nb
  ELSE LET a == Head(ws)
           i == BucketIndex(nd[a].key, bc) + 1
       IN  RelinkFrom([nb EXCEPT ![i] = <<a>> \o @], Tail(ws), nd, bc)

\* resize that keeps every chain in its old slot instead of rehashing
ResizeKeepSlots(bk, nd, new_capacity) ==
  [i \in 1..new_capacity |-> IF i <= Len(bk) THEN bk[i] ELSE << >>]

\* resize that walks every old bucket but the last
ResizeSkipLast(bk, nd, new_capacity) ==
  RelinkFrom([i \in 1..new_capacity |-> << >>], Walk(SubSeq(bk, 1, Len(bk) - 1)), nd, new_capacity)

\* resize_hashmap (success path): every node walked from the old table is
\* prepended to the chain of its new bucket
resize_hashmap(bk, nd, new_capacity) ==
  RelinkFrom([i \in 1..new_capacity |-> << >>], Walk(bk), nd, new_capacity)

\* key lookup that only compares the chain head
ChainPosHeadOnly(chain, nd, key) ==
  IF chain # << >> /\ nd[chain[1]].key = key THEN 1 ELSE 0

\* position of key in a chain (0 when absent)
ChainPos(chain, nd, key) ==
  IF \E p \in 1..Len(chain) : nd[chain[p]].key = key
  THEN CHOOSE p \in 1..Len(chain) : nd[chain[p]].key = key
  ELSE 0

\* mvn_hmap_get: the address of the entry (its value blob), or NULL
mvn_hmap_get(key) ==
  LET chain == buckets[BucketIndex(key, bucket_count) + 1]
           p == ChainPos(chain, node, key)
  IN  IF p = 0 THEN NULL ELSE chain[p]

\* no value (get returned NULL); stored values are never negative
NoValue == -1

\* the value bytes behind mvn_hmap_get
GetVal(key) == IF mvn_hmap_get(key) = NULL THEN NoValue ELSE node[mvn_hmap_get(key)].val

\* the record of a call: operation, arguments, which pointer argument was
\* NULL ("none" if none), which allocation failed ("none" if none), the path
\* the code took, the boolean / non-NULL result and the returned data (for
\* calls taking an index, the index)
Call(op, key, val, nullArg, fail, branch, ok, out) ==
  [op |-> op, key |-> key, val |-> val, nullArg |-> nullArg, fail |-> fail,
   branch |-> branch, ok |-> ok, out |-> out]

\* mvn_hmap_init(ITEM_SIZE, cap), allocations succeeding
MapInit ==
  \E cap \in MapInitCaps :
    LET bc == IF cap = 0 THEN MVN_HMAP_DEFAULT_CAPACITY ELSE cap
    IN  /\ bucket_count = bc
        /\ buckets = [i \in 1..bc |-> << >>]
        /\ length = 0
        /\ node = << >>
        /\ absMap = [k \in MapKeys |-> NoValue]
        /\ last = Call("init", "", cap, "none", "none", "init", TRUE, << >>)
        /\ data = << >> /\ llength = 0 /\ capacity = 0
        /\ fillCap = 0 /\ fillN = 0 /\ fillI = 0
        /\ CopyIdle

\* mvn_hmap_set(hmap, key, value).  nullArg: the NULL pointer argument;
\* fail: "resize" when the calloc of resize_hashmap fails, "entry" when a
\* malloc of create_entry fails; heap: the addresses its malloc may return.
mvn_hmap_set(nullArg, key, value, fail, heap) ==
  IF nullArg # "none"
  THEN /\ last' = Call("set", key, value, nullArg, fail, "invalid", FALSE, << >>)
       /\ UNCHANGED <<bucket_count, buckets, length, node, absMap>>
  ELSE
  LET grow == length > LoadLimit(bucket_count)
      bc1  == IF grow THEN bucket_count * MVN_HMAP_GROWTH_FACTOR ELSE bucket_count
      bk1  == IF grow THEN resize_hashmap(buckets, node, bc1) ELSE buckets
      idx  == BucketIndex(key, bc1) + 1
      p    == ChainPos(bk1[idx], node, key)
  IN
  IF grow /\ fail = "resize"
  THEN /\ last' = Call("set", key, value, nullArg, fail, "resize_failed", FALSE, << >>)
       /\ UNCHANGED <<bucket_count, buckets, length, node, absMap>>
  ELSE IF p # 0
  THEN \* update the existing entry's value bytes in place
       /\ bucket_count' = bc1
       /\ buckets' = bk1
       /\ node' = [node EXCEPT ![bk1[idx][p]].val = value]
       /\ absMap' = [absMap EXCEPT ![key] = value]
       /\ last' = Call("set", key, value, nullArg, fail, "update", TRUE, << >>)
       /\ UNCHANGED <<length>>
  ELSE IF fail = "entry"
  THEN \* create_entry returned NULL (after a possible resize)
       /\ bucket_count' = bc1
       /\ buckets' = bk1
       /\ last' = Call("set", key, value, nullArg, fail, "entry_failed", FALSE, << >>)
       /\ UNCHANGED <<length, node, absMap>>
  ELSE \* prepend a new entry, at an address malloc hands out, to the chain
       \E a \in heap \ DOMAIN node :
       /\ bucket_count' = bc1
       /\ buckets' = [bk1 EXCEPT ![idx] = <<a>> \o @]
       /\ node' = node @@ (a :> [key |-> key, val |-> value])
       /\ length' = length + 1
       /\ absMap' = [absMap EXCEPT ![key] = value]
       /\ last' = Call("set", key, value, nullArg, fail, "insert", TRUE, << >>)

\* a call with valid arguments, fail naming the allocation that fails, if any
HmapSet ==
  /\ \E key \in MapKeys, value \in MapVals, fail \in {"none", "resize", "entry"} :
       mvn_hmap_set("none", key, value, fail, Heap)
  /\ UNCHANGED <<listVars, fillVars, copyVars>>

\* a call with one NULL pointer argument
HmapSetNullArg ==
  /\ \E arg \in {"hmap", "key", "value"} : mvn_hmap_set(arg, "a", 1, "none", Heap)
  /\ UNCHANGED <<listVars, fillVars, copyVars>>

\* mvn_hmap_get as a call: out holds the returned pointer
HmapGet ==
  /\ \E key \in MapKeys :
       /\ last' = Call("get", key, 0, "none", "none", "get",
                       mvn_hmap_get(key) # NULL, <<mvn_hmap_get(key)>>)
       /\ UNCHANGED <<bucket_count, buckets, length, node, absMap>>
  /\ UNCHANGED <<listVars, fillVars, copyVars>>

\* delete that unlinks the entry but forgets to decrement length
DeleteKeepLength(nullArg, key) ==
  LET idx == BucketIndex(key, bucket_count) + 1
      p   == ChainPos(buckets[idx], node, key)
  IN
  IF nullArg # "none" \/ p = 0
  THEN /\ last' = Call("delete", key, 0, nullArg, "none", "not_found", FALSE, << >>)
       /\ UNCHANGED <<bucket_count, buckets, length, node, absMap>>
  ELSE /\ buckets' = [buckets EXCEPT ![idx] = SubSeq(@, 1, p - 1) \o SubSeq(@, p + 1, Len(@))]
       /\ node' = [b \in DOMAIN node \ {buckets[idx][p]} |-> node[b]]
       /\ absMap' = [absMap EXCEPT ![key] = NoValue]
       /\ last' = Call("delete", key, 0, nullArg, "none", "unlink", TRUE, << >>)
       /\ UNCHANGED <<bucket_count, length>>

\* mvn_hmap_delete(hmap, key)
mvn_hmap_delete(nullArg, key) ==
  LET idx == BucketIndex(key, bucket_count) + 1
      p   == ChainPos(buckets[idx], node, key)
  IN
  IF nullArg # "none" \/ p = 0
  THEN /\ last' = Call("delete", key, 0, nullArg, "none", "not_found", FALSE, << >>)
       /\ UNCHANGED <<bucket_count, buckets, length, node, absMap>>
  ELSE LET a == buckets[idx][p]
       IN
       /\ buckets' = [buckets EXCEPT ![idx] = SubSeq(@, 1, p - 1) \o SubSeq(@, p + 1, Len(@))]
       /\ node' = [b \in DOMAIN node \ {a} |-> node[b]]
       /\ length' = length - 1
       /\ absMap' = [absMap EXCEPT ![key] = NoValue]
       /\ last' = Call("delete", key, 0, nullArg, "none", "unlink", TRUE, << >>)
       /\ UNCHANGED <<bucket_count>>

HmapDelete ==
  /\ \E key \in MapKeys : mvn_hmap_delete("none", key)
  /\ UNCHANGED <<listVars, fillVars, copyVars>>

HmapDeleteNullArg ==
  /\ \E arg \in {"hmap", "key"} : mvn_hmap_delete(arg, "a")
  /\ UNCHANGED <<listVars, fillVars, copyVars>>

\* keys of the chain heads only
KeysOfHeads ==
  LET hs == Flatten([i \in 1..Len(buckets) |-> SubSeq(buckets[i], 1, IF buckets[i] = << >> THEN 0 ELSE 1)])
  IN  [i \in 1..Len(hs) |-> node[hs[i]].key]

\* mvn_hmap_keys: a copy of every key, bucket by bucket, chain order
KeysList == [i \in 1..Len(Walk(buckets)) |-> node[Walk(buckets)[i]].key]

\* mvn_hmap_values: the value bytes of every entry, same order
ValuesList == [i \in 1..Len(Walk(buckets)) |-> node[Walk(buckets)[i]].val]

\* fail = "alloc": a list allocation or key copy fails (what was built is
\* freed and NULL returned)
mvn_hmap_keys(nullArg, fail) ==
  LET ok == nullArg = "none" /\ fail = "none"
  IN  /\ last' = Call("keys", "", 0, nullArg, fail, "keys", ok, IF ok THEN KeysList ELSE << >>)
      /\ UNCHANGED <<bucket_count, buckets, length, node, absMap>>

mvn_hmap_values(nullArg, fail) ==
  LET ok == nullArg = "none" /\ fail = "none"
  IN  /\ last' = Call("values", "", 0, nullArg, fail, "values", ok, IF ok THEN ValuesList ELSE << >>)
      /\ UNCHANGED <<bucket_count, buckets, length, node, absMap>>

HmapKeys ==
  /\ \E nullArg \in {"none", "hmap"}, fail \in {"none", "alloc"} : mvn_hmap_keys(nullArg, fail)
  /\ UNCHANGED <<listVars, fillVars, copyVars>>

HmapValues ==
  /\ \E nullArg \in {"none", "hmap"}, fail \in {"none", "alloc"} : mvn_hmap_values(nullArg, fail)
  /\ UNCHANGED <<listVars, fillVars, copyVars>>

MapNext ==
  \/ HmapSet \/ HmapSetNullArg \/ HmapGet \/ HmapDelete \/ HmapDeleteNullArg
  \/ HmapKeys \/ HmapValues

Spec == MapInit /\ [][MapNext]_vars

(***************************************************************************)
(* The resize test of test_hashmap_edge_cases: keys "key0", "key1", ...    *)
(* with values 0, 10, 20, ... set one after the other into a fresh map.    *)
(***************************************************************************)
FillCaps == {0, 1, 2, 16}
FillCounts == {20, MaxFill}

FillKeys == {FillKey(i) : i \in 0..MaxFill}

\* initial bucket count of the filled map
FillBc0 == IF fillCap = 0 THEN MVN_HMAP_DEFAULT_CAPACITY ELSE fillCap

FillInit ==
  \E cap \in FillCaps, n \in FillCounts :
    /\ bucket_count = (IF cap = 0 THEN MVN_HMAP_DEFAULT_CAPACITY ELSE cap)
    /\ buckets = [i \in 1..bucket_count |-> << >>]
    /\ length = 0
    /\ node = << >>
    /\ absMap = [k \in FillKeys |-> NoValue]
    /\ last = Call("init", "", cap, "none", "none", "init", TRUE, << >>)
    /\ data = << >> /\ llength = 0 /\ capacity = 0
    /\ fillCap = cap /\ fillN = n /\ fillI = 0
    /\ CopyIdle

\* one iteration: mvn_hmap_set(hmap, keys[i], &values[i]), values[i] = i * 10
FillSet ==
  /\ fillI < fillN
  /\ mvn_hmap_set("none", FillKey(fillI), fillI * 10, "none", {fillI + 1})
  /\ fillI' = fillI + 1
  /\ UNCHANGED <<fillCap, fillN, listVars, copyVars>>

FillNext == FillSet

FillSpec == FillInit /\ [][FillNext]_vars

(***************************************************************************)
(* Dynamic array list (mvn-list.c), item_size sizeof(int): data holds the  *)
(* capacity slots; slots at or past llength hold whatever they last held.  *)
(***************************************************************************)
MVN_LIST_DEFAULT_CAPACITY == 8
MVN_LIST_GROWTH_FACTOR == 2

\* bounds of the list scenarios
ListVals == {1, 2, 3}
ListInitCaps == {0, 1, 4}
MaxLen == 5

\* contents of a slot never written since its allocation
Uninit == -1

\* the elements of the list: slots 0 .. llength - 1
Elems == SubSeq(data, 1, llength)

\* realloc that loses the old contents
ResizeLosesData(d, len, cap, new_capacity) ==
  LET nc == IF new_capacity < len THEN len ELSE new_capacity
      nc2 == IF nc > 0 /\ nc < MVN_LIST_DEFAULT_CAPACITY THEN MVN_LIST_DEFAULT_CAPACITY ELSE nc
  IN  IF nc = cap THEN d ELSE [i \in 1..nc2 |-> Uninit]

\* mvn_list_resize (realloc succeeding): the new buffer (the capacity is its
\* length); realloc keeps the first min(old, new) slots
mvn_list_resize(d, len, cap, new_capacity) ==
  LET nc == IF new_capacity < len THEN len ELSE new_capacity
      nc2 == IF nc > 0 /\ nc < MVN_LIST_DEFAULT_CAPACITY THEN MVN_LIST_DEFAULT_CAPACITY ELSE nc
  IN  IF nc = cap THEN d
      ELSE [i \in 1..nc2 |-> IF i <= Len(d) THEN d[i] ELSE Uninit]

\* growth check that only fires once length exceeds capacity
NeedsGrowLate == llength > capacity

\* mvn_list_ensure_capacity: whether it calls realloc, and the buffer after
\* a successful call
NeedsGrow == llength >= capacity
GrownData ==
  IF NeedsGrow
  THEN mvn_list_resize(data, llength, capacity,
                       IF capacity * MVN_LIST_GROWTH_FACTOR = 0 THEN MVN_LIST_DEFAULT_CAPACITY
                       ELSE capacity * MVN_LIST_GROWTH_FACTOR)
  ELSE data

\* mvn_list_init(sizeof(int), cap), allocations succeeding
ListInit ==
  \E cap \in ListInitCaps :
    LET c == IF cap = 0 THEN MVN_LIST_DEFAULT_CAPACITY ELSE cap
    IN  /\ data = [i \in 1..c |-> Uninit]
        /\ llength = 0
        /\ capacity = c
        /\ bucket_count = 1 /\ buckets = << << >> >> /\ length = 0 /\ node = << >>
        /\ absMap = << >>
        /\ last = Call("init", "", cap, "none", "none", "init", TRUE, << >>)
        /\ fillCap = 0 /\ fillN = 0 /\ fillI = 0
        /\ CopyIdle

\* mvn_list_push(list, &item); fail: the realloc of the growth fails
mvn_list_push(nullArg, item, fail) ==
  IF nullArg # "none"
  THEN /\ last' = Call("push", "", item, nullArg, fail, "invalid", FALSE, << >>)
       /\ UNCHANGED <<data, llength, capacity>>
  ELSE IF NeedsGrow /\ fail = "realloc"
  THEN /\ last' = Call("push", "", item, nullArg, fail, "grow_failed", FALSE, << >>)
       /\ UNCHANGED <<data, llength, capacity>>
  ELSE /\ data' = [GrownData EXCEPT ![llength + 1] = item]
       /\ capacity' = Len(GrownData)
       /\ llength' = llength + 1
       /\ last' = Call("push", "", item, nullArg, fail, IF NeedsGrow THEN "grow" ELSE "push", TRUE, << >>)

\* pop without the empty-list check: reports success and copies out the
\* slot below the buffer start (modelled as slot 0)
PopNoEmptyCheck(nullArg) ==
  IF nullArg = "list"
  THEN /\ last' = Call("pop", "", 0, nullArg, "none", "empty", FALSE, << >>)
       /\ UNCHANGED <<data, llength, capacity>>
  ELSE IF llength = 0
  THEN /\ last' = Call("pop", "", 0, nullArg, "none", "pop", TRUE,
                       IF nullArg = "out" THEN << >> ELSE <<data[1]>>)
       /\ UNCHANGED <<data, llength, capacity>>
  ELSE /\ llength' = llength - 1
       /\ last' = Call("pop", "", 0, nullArg, "none", "pop", TRUE,
                       IF nullArg = "out" THEN << >> ELSE <<data[llength]>>)
       /\ UNCHANGED <<data, capacity>>

\* mvn_list_pop(list, out): out receives the last element unless out is NULL
mvn_list_pop(nullArg) ==
  IF nullArg = "list" \/ llength = 0
  THEN /\ last' = Call("pop", "", 0, nullArg, "none", "empty", FALSE, << >>)
       /\ UNCHANGED <<data, llength, capacity>>
  ELSE /\ llength' = llength - 1
       /\ last' = Call("pop", "", 0, nullArg, "none", "pop", TRUE,
                       IF nullArg = "out" THEN << >> ELSE <<data[llength]>>)
       /\ UNCHANGED <<data, capacity>>

\* mvn_list_unshift(list, &item): memmove the elements one slot right, then
\* write slot 0
mvn_list_unshift(nullArg, item, fail) ==
  IF nullArg # "none"
  THEN /\ last' = Call("unshift", "", item, nullArg, fail, "invalid", FALSE, << >>)
       /\ UNCHANGED <<data, llength, capacity>>
  ELSE IF NeedsGrow /\ fail = "realloc"
  THEN /\ last' = Call("unshift", "", item, nullArg, fail, "grow_failed", FALSE, << >>)
       /\ UNCHANGED <<data, llength, capacity>>
  ELSE /\ data' = [i \in 1..Len(GrownData) |->
                     IF i = 1 THEN item
                     ELSE IF i <= llength + 1 THEN GrownData[i - 1]
                     ELSE GrownData[i]]
       /\ capacity' = Len(GrownData)
       /\ llength' = llength + 1
       /\ last' = Call("unshift", "", item, nullArg, fail, IF NeedsGrow THEN "grow" ELSE "unshift", TRUE, << >>)

\* shift that copies slot 0 out but forgets the memmove
ShiftNoMove(nullArg) ==
  IF nullArg = "list" \/ llength = 0
  THEN /\ last' = Call("shift", "", 0, nullArg, "none", "empty", FALSE, << >>)
       /\ UNCHANGED <<data, llength, capacity>>
  ELSE /\ llength' = llength - 1
       /\ last' = Call("shift", "", 0, nullArg, "none", "shift", TRUE,
                       IF nullArg = "out" THEN << >> ELSE <<data[1]>>)
       /\ UNCHANGED <<data, capacity>>

\* mvn_list_shift(list, out): copy slot 0 out, memmove the rest one slot left
mvn_list_shift(nullArg) ==
  IF nullArg = "list" \/ llength = 0
  THEN /\ last' = Call("shift", "", 0, nullArg, "none", "empty", FALSE, << >>)
       /\ UNCHANGED <<data, llength, capacity>>
  ELSE /\ data' = [i \in 1..capacity |-> IF i < llength THEN data[i + 1] ELSE data[i]]
       /\ llength' = llength - 1
       /\ last' = Call("shift", "", 0, nullArg, "none", "shift", TRUE,
                       IF nullArg = "out" THEN << >> ELSE <<data[1]>>)
       /\ UNCHANGED <<capacity>>

\* bounds of the in-place operation scenarios
OpsVals == {1, 2, 3}
OpsMaxLen == 3

\* indices passed to get / set
ListIndices == 0..MVN_LIST_DEFAULT_CAPACITY

\* mvn_list_get(list, index): the element behind the returned pointer, or
\* << >> for NULL
mvn_list_get(index) == IF index >= llength THEN << >> ELSE <<data[index + 1]>>

\* set checked against capacity instead of length
SetCheckCapacity(nullArg, index, item) ==
  IF nullArg # "none" \/ index >= capacity
  THEN /\ last' = Call("list_set", "", item, nullArg, "none", "invalid", FALSE, <<index>>)
       /\ UNCHANGED <<data, llength, capacity>>
  ELSE /\ data' = [data EXCEPT ![index + 1] = item]
       /\ last' = Call("list_set", "", item, nullArg, "none", "set", TRUE, <<index>>)
       /\ UNCHANGED <<llength, capacity>>

\* mvn_list_set(list, index, &item)
mvn_list_set(nullArg, index, item) ==
  IF nullArg # "none" \/ index >= llength
  THEN /\ last' = Call("list_set", "", item, nullArg, "none", "invalid", FALSE, <<index>>)
       /\ UNCHANGED <<data, llength, capacity>>
  ELSE /\ data' = [data EXCEPT ![index + 1] = item]
       /\ last' = Call("list_set", "", item, nullArg, "none", "set", TRUE, <<index>>)
       /\ UNCHANGED <<llength, capacity>>

ListSet ==
  /\ \E nullArg \in {"none", "list", "item"}, index \in ListIndices, item \in OpsVals :
       mvn_list_set(nullArg, index, item)
  /\ UNCHANGED <<bucket_count, buckets, length, node, absMap, fillVars, copyVars>>

ListPush ==
  /\ llength < MaxLen
  /\ \E item \in ListVals, fail \in {"none", "realloc"} : mvn_list_push("none", item, fail)
  /\ UNCHANGED <<bucket_count, buckets, length, node, absMap, fillVars, copyVars>>

ListPushNullArg ==
  /\ \E arg \in {"list", "item"} : mvn_list_push(arg, 1, "none")
  /\ UNCHANGED <<bucket_count, buckets, length, node, absMap, fillVars, copyVars>>

ListPop ==
  /\ \E arg \in {"none", "list", "out"} : mvn_list_pop(arg)
  /\ UNCHANGED <<bucket_count, buckets, length, node, absMap, fillVars, copyVars>>

ListUnshift ==
  /\ llength < MaxLen
  /\ \E item \in ListVals, fail \in {"none", "realloc"} : mvn_list_unshift("none", item, fail)
  /\ UNCHANGED <<bucket_count, buckets, length, node, absMap, fillVars, copyVars>>

ListUnshiftNullArg ==
  /\ \E arg \in {"list", "item"} : mvn_list_unshift(arg, 1, "none")
  /\ UNCHANGED <<bucket_count, buckets, length, node, absMap, fillVars, copyVars>>

ListShift ==
  /\ \E arg \in {"none", "list", "out"} : mvn_list_shift(arg)
  /\ UNCHANGED <<bucket_count, buckets, length, node, absMap, fillVars, copyVars>>

ListNext ==
  \/ ListPush \/ ListPushNullArg \/ ListPop
  \/ ListUnshift \/ ListUnshiftNullArg \/ ListShift

ListSpec == ListInit /\ [][ListNext]_vars

(***************************************************************************)
(* The in-place list operations (set, resize, reverse, sort) on lists      *)
(* built by push / pop.                                                    *)
(***************************************************************************)
OpsPush ==
  /\ llength < OpsMaxLen
  /\ \E item \in OpsVals, fail \in {"none", "realloc"} : mvn_list_push("none", item, fail)
  /\ UNCHANGED <<bucket_count, buckets, length, node, absMap, fillVars, copyVars>>

\* capacities requested from mvn_list_resize
ResizeReqs == {0, 1, 3, 9}

\* a resize without the clamp of new_capacity to length
ResizeNoClamp(op, arg, nullArg, new_capacity, fail) ==
  LET nc2 == IF new_capacity > 0 /\ new_capacity < MVN_LIST_DEFAULT_CAPACITY
             THEN MVN_LIST_DEFAULT_CAPACITY ELSE new_capacity
  IN
  IF nullArg = "list"
  THEN /\ last' = Call(op, "", 0, nullArg, fail, "invalid", FALSE, <<arg>>)
       /\ UNCHANGED <<data, llength, capacity>>
  ELSE IF new_capacity = capacity
  THEN /\ last' = Call(op, "", 0, nullArg, fail, "same", TRUE, <<arg>>)
       /\ UNCHANGED <<data, llength, capacity>>
  ELSE IF fail = "realloc"
  THEN /\ last' = Call(op, "", 0, nullArg, fail, "realloc_failed", FALSE, <<arg>>)
       /\ UNCHANGED <<data, llength, capacity>>
  ELSE /\ data' = [i \in 1..nc2 |-> IF i <= Len(data) THEN data[i] ELSE Uninit]
       /\ capacity' = nc2
       /\ last' = Call(op, "", 0, nullArg, fail, "realloc", TRUE, <<arg>>)
       /\ UNCHANGED <<llength>>

\* a resize that records the new capacity before the realloc can fail
ResizeCommitFirst(op, arg, nullArg, new_capacity, fail) ==
  LET nc == IF new_capacity < llength THEN llength ELSE new_capacity
  IN
  IF nullArg = "list"
  THEN /\ last' = Call(op, "", 0, nullArg, fail, "invalid", FALSE, <<arg>>)
       /\ UNCHANGED <<data, llength, capacity>>
  ELSE IF nc = capacity
  THEN /\ last' = Call(op, "", 0, nullArg, fail, "same", TRUE, <<arg>>)
       /\ UNCHANGED <<data, llength, capacity>>
  ELSE IF fail = "realloc"
  THEN /\ capacity' = Len(mvn_list_resize(data, llength, capacity, new_capacity))
       /\ last' = Call(op, "", 0, nullArg, fail, "realloc_failed", FALSE, <<arg>>)
       /\ UNCHANGED <<data, llength>>
  ELSE /\ data' = mvn_list_resize(data, llength, capacity, new_capacity)
       /\ capacity' = Len(mvn_list_resize(data, llength, capacity, new_capacity))
       /\ last' = Call(op, "", 0, nullArg, fail, "realloc", TRUE, <<arg>>)
       /\ UNCHANGED <<llength>>

\* mvn_list_resize(list, new_capacity) called by operation op (argument
\* arg); fail: the realloc fails
ResizeAs(op, arg, nullArg, new_capacity, fail) ==
  LET nc == IF new_capacity < llength THEN llength ELSE new_capacity
  IN
  IF nullArg = "list"
  THEN /\ last' = Call(op, "", 0, nullArg, fail, "invalid", FALSE, <<arg>>)
       /\ UNCHANGED <<data, llength, capacity>>
  ELSE IF nc = capacity
  THEN /\ last' = Call(op, "", 0, nullArg, fail, "same", TRUE, <<arg>>)
       /\ UNCHANGED <<data, llength, capacity>>
  ELSE IF fail = "realloc"
  THEN /\ last' = Call(op, "", 0, nullArg, fail, "realloc_failed", FALSE, <<arg>>)
       /\ UNCHANGED <<data, llength, capacity>>
  ELSE /\ data' = mvn_list_resize(data, llength, capacity, new_capacity)
       /\ capacity' = Len(mvn_list_resize(data, llength, capacity, new_capacity))
       /\ last' = Call(op, "", 0, nullArg, fail, "realloc", TRUE, <<arg>>)
       /\ UNCHANGED <<llength>>

\* mvn_list_resize(list, new_capacity) as a call; fail: realloc fails
mvn_list_resize_call(nullArg, new_capacity, fail) ==
  ResizeAs("resize", new_capacity, nullArg, new_capacity, fail)

ListResize ==
  /\ \E nullArg \in {"none", "list"}, n \in ResizeReqs, fail \in {"none", "realloc"} :
       mvn_list_resize_call(nullArg, n, fail)
  /\ UNCHANGED <<bucket_count, buckets, length, node, absMap, fillVars, copyVars>>

OpsNext == OpsPush \/ ListPop \/ ListSet \/ ListResize

ListOpsSpec == ListInit /\ [][OpsNext]_vars

(***************************************************************************)
(* Creation: mvn_list_init and mvn_hmap_init on size_t arguments.  A size_t *)
(* is a 64-bit word of Limbs base-256 limbs, least significant first.      *)
(***************************************************************************)
\* a small number (below 2^24) as a word
WordOf(n) == [i \in 1..Limbs |-> IF i <= 3 THEN (n \div (LimbBase ^ (i - 1))) % LimbBase ELSE 0]

\* the value of a word whose limbs above the third are 0
WordToInt(w) == w[1] + LimbBase * w[2] + LimbBase * LimbBase * w[3]

SIZE_MAX == [i \in 1..Limbs |-> LimbBase - 1]

\* sizeof(mvn_hmap_entry_t *) on a 64-bit target
PTR_SIZE == 8

RECURSIVE DivFrom(_, _, _, _)
DivFrom(a, d, i, r) ==
  IF i = 0 THEN << >>
  ELSE LET cur == r * LimbBase + a[i]
       IN  DivFrom(a, d, i - 1, cur % d) \o <<cur \div d>>

\* a / d for a small divisor d
DivWord(a, d) == DivFrom(a, d, Limbs, 0)

RECURSIVE GtFrom(_, _, _)
GtFrom(a, b, i) ==
  IF i = 0 THEN FALSE
  ELSE IF a[i] # b[i] THEN a[i] > b[i] ELSE GtFrom(a, b, i - 1)

\* a > b on words
GtWord(a, b) == GtFrom(a, b, Limbs)

\* inputs of the creation calls
InitItemSizes == {0, 1, 4, 8}
InitCapWords ==
  {WordOf(0), WordOf(1), WordOf(3), WordOf(16), WordOf(100),
   [i \in 1..Limbs |-> IF i = Limbs THEN 32 ELSE 0],   \* 2^61 = SIZE_MAX / 8 + 1
   SIZE_MAX}

\* mvn_list_init(item_size, initial_capacity); fail: the malloc of the
\* structure or of the data buffer (initial_capacity * item_size bytes) fails
mvn_list_init(item_size, initial_capacity, fail) ==
  LET cap == IF initial_capacity = WordOf(0) THEN WordOf(MVN_LIST_DEFAULT_CAPACITY)
             ELSE initial_capacity
      ok  == item_size # 0 /\ fail = "none"
  IN  last' = Call("list_init", "", [item_size |-> item_size, initial_capacity |-> initial_capacity],
                   "none", fail, IF item_size = 0 THEN "zero_item_size" ELSE "alloc", ok,
                   IF ok THEN <<[length |-> 0, capacity |-> cap]>> ELSE << >>)

\* creation that keeps initial_capacity 0 instead of the default
HmapInitNoDefault(item_size, initial_capacity, fail) ==
  LET cap == initial_capacity
      overflow == GtWord(cap, DivWord(SIZE_MAX, PTR_SIZE))
      ok  == item_size # 0 /\ ~overflow /\ fail = "none"
  IN  last' = Call("hmap_init", "", [item_size |-> item_size, initial_capacity |-> initial_capacity],
                   "none", fail,
                   IF item_size = 0 THEN "zero_item_size" ELSE IF overflow THEN "overflow" ELSE "alloc",
                   ok,
                   IF ok THEN <<[length |-> 0, capacity |-> cap,
                                 buckets |-> [i \in 1..WordToInt(cap) |-> << >>]]>>
                   ELSE << >>)

\* mvn_hmap_init(item_size, initial_capacity); fail: the malloc of the
\* structure or the calloc of the buckets fails
mvn_hmap_init(item_size, initial_capacity, fail) ==
  LET cap == IF initial_capacity = WordOf(0) THEN WordOf(MVN_HMAP_DEFAULT_CAPACITY)
             ELSE initial_capacity
      overflow == GtWord(cap, DivWord(SIZE_MAX, PTR_SIZE))
      ok  == item_size # 0 /\ ~overflow /\ fail = "none"
  IN  last' = Call("hmap_init", "", [item_size |-> item_size, initial_capacity |-> initial_capacity],
                   "none", fail,
                   IF item_size = 0 THEN "zero_item_size" ELSE IF overflow THEN "overflow" ELSE "alloc",
                   ok,
                   IF ok THEN <<[length |-> 0, capacity |-> cap,
                                 buckets |-> [i \in 1..WordToInt(cap) |-> << >>]]>>
                   ELSE << >>)

CreateInit ==
  /\ bucket_count = 1 /\ buckets = << << >> >> /\ length = 0 /\ node = << >>
  /\ absMap = << >>
  /\ last = Call("none", "", 0, "none", "none", "none", FALSE, << >>)
  /\ data = << >> /\ llength = 0 /\ capacity = 0
  /\ fillCap = 0 /\ fillN = 0 /\ fillI = 0
  /\ CopyIdle

ListInitCall ==
  /\ \E item_size \in InitItemSizes, cap \in InitCapWords, fail \in {"none", "alloc"} :
       mvn_list_init(item_size, cap, fail)
  /\ UNCHANGED <<bucket_count, buckets, length, node, absMap, listVars, fillVars, copyVars>>

HmapInitCall ==
  /\ \E item_size \in InitItemSizes, cap \in InitCapWords, fail \in {"none", "alloc"} :
       mvn_hmap_init(item_size, cap, fail)
  /\ UNCHANGED <<bucket_count, buckets, length, node, absMap, listVars, fillVars, copyVars>>

CreateNext == ListInitCall \/ HmapInitCall

CreateSpec == CreateInit /\ [][CreateNext]_vars

\* lists the tests start from: up to OpsMaxLen items over OpsVals, capacity
\* 0 (an empty list resized to 0), 1 or 4 (mvn_list_init(size, 1 or 4)) or 8
CopyLists == UNION {[1..n -> OpsVals] : n \in 0..OpsMaxLen}
CopyCaps == {0, 1, 4, 8}
\* item sizes: an int, and a struct larger than MVN_LIST_STACK_BUFFER_SIZE
ItemSizes == {4, 72}
MVN_LIST_STACK_BUFFER_SIZE == 64

CopyInit ==
  \E e \in CopyLists, c \in CopyCaps, sz \in ItemSizes :
    /\ c >= Len(e)
    /\ data = [i \in 1..c |-> IF i <= Len(e) THEN e[i] ELSE Uninit]
    /\ llength = Len(e)
    /\ capacity = c
    /\ bucket_count = 1 /\ buckets = << << >> >> /\ length = 0 /\ node = << >>
    /\ absMap = << >>
    /\ last = Call("init", "", c, "none", "none", "init", TRUE, << >>)
    /\ fillCap = 0 /\ fillN = 0 /\ fillI = 0
    /\ isize = sz /\ cdata = << >> /\ clength = 0 /\ ccapacity = 0
    /\ cbuf = NoBuf /\ cfrom = "none"

\* the returned list: NULL, or a list from mvn_list_init(item_size, cap)
\* holding elems
ReturnNull(from) ==
  /\ cdata' = << >> /\ clength' = 0 /\ ccapacity' = 0 /\ cbuf' = NoBuf
  /\ cfrom' = from

ReturnList(elems, cap, buf, from) ==
  /\ cdata' = [i \in 1..cap |-> IF i <= Len(elems) THEN elems[i] ELSE Uninit]
  /\ clength' = Len(elems)
  /\ ccapacity' = cap
  /\ cbuf' = buf
  /\ cfrom' = from

\* end == (size_t)-1 asks for the end of the list
SliceEndSentinel == -1
SliceStarts == 0..(OpsMaxLen + 1)
SliceEnds == {SliceEndSentinel} \cup 0..(OpsMaxLen + 1)

SliceStrictStart(start, re) == start >= llength \/ start > re

SliceInvalid(start, re) == start > llength \/ start > re

\* mvn_list_slice(list, start, end); fail: mvn_list_init fails
mvn_list_slice(nullArg, start, end, fail) ==
  LET re == IF end = SliceEndSentinel \/ end > llength THEN llength ELSE end
      sl == re - start
  IN
  IF nullArg = "list"
  THEN /\ ReturnNull("slice")
       /\ last' = Call("slice", "", 0, nullArg, fail, "invalid", FALSE, <<start, end>>)
  ELSE IF SliceInvalid(start, re)
  THEN /\ ReturnNull("slice")
       /\ last' = Call("slice", "", 0, nullArg, fail, "indices", FALSE, <<start, end>>)
  ELSE IF fail = "alloc"
  THEN /\ ReturnNull("slice")
       /\ last' = Call("slice", "", 0, nullArg, fail, "alloc_failed", FALSE, <<start, end>>)
  ELSE /\ ReturnList(SubSeq(data, start + 1, re),
                     IF sl > 0 THEN sl ELSE MVN_LIST_DEFAULT_CAPACITY, NewBuf, "slice")
       /\ last' = Call("slice", "", 0, nullArg, fail, "slice", TRUE, <<start, end>>)

CopySlice ==
  /\ \E nullArg \in {"none", "list"}, start \in SliceStarts, end \in SliceEnds,
        fail \in {"none", "alloc"} :
       mvn_list_slice(nullArg, start, end, fail)
  /\ UNCHANGED <<bucket_count, buckets, length, node, absMap, listVars, fillVars, isize>>

\* second operands of mvn_list_concat
ConcatBs == UNION {[1..n -> OpsVals] : n \in 0..2}

\* the result buffer with the two lists copied in the wrong order
ConcatSwapped(b) == b \o Elems

\* the result buffer: list1's items, then list2's at offset list1->length
ConcatData(b) == Elems \o b

\* mvn_list_concat(list, list2) with list2 holding b, item_size bsize
mvn_list_concat(nullArg, b, bsize, fail) ==
  LET total == llength + Len(b)
  IN
  IF nullArg # "none"
  THEN /\ ReturnNull("concat")
       /\ last' = Call("concat", "", bsize, nullArg, fail, "invalid", FALSE, b)
  ELSE IF bsize # isize
  THEN /\ ReturnNull("concat")
       /\ last' = Call("concat", "", bsize, nullArg, fail, "item_size", FALSE, b)
  ELSE IF fail = "alloc"
  THEN /\ ReturnNull("concat")
       /\ last' = Call("concat", "", bsize, nullArg, fail, "alloc_failed", FALSE, b)
  ELSE /\ ReturnList(ConcatData(b),
                     IF total > 0 THEN total ELSE MVN_LIST_DEFAULT_CAPACITY, NewBuf, "concat")
       /\ last' = Call("concat", "", bsize, nullArg, fail, "concat", TRUE, b)

CopyConcat ==
  /\ \E nullArg \in {"none", "list1", "list2"}, b \in ConcatBs, bsize \in ItemSizes,
        fail \in {"none", "alloc"} :
       mvn_list_concat(nullArg, b, bsize, fail)
  /\ UNCHANGED <<bucket_count, buckets, length, node, absMap, listVars, fillVars, isize>>

CopyNext == CopySlice \/ CopyConcat

CopySpec == CopyInit /\ [][CopyNext]_vars

\* a clone that keeps the source's data buffer instead of allocating one
CloneShared(nullArg, fail) ==
  IF nullArg = "list"
  THEN /\ ReturnNull("clone")
       /\ last' = Call("clone", "", 0, nullArg, fail, "invalid", FALSE, << >>)
  ELSE /\ ReturnList(Elems, capacity, ABuf, "clone")
       /\ last' = Call("clone", "", 0, nullArg, fail, "clone", TRUE, << >>)

\* mvn_list_clone(list): mvn_list_init(item_size, capacity), then copy the
\* length items; fail: mvn_list_init fails
mvn_list_clone(nullArg, fail) ==
  IF nullArg = "list"
  THEN /\ ReturnNull("clone")
       /\ last' = Call("clone", "", 0, nullArg, fail, "invalid", FALSE, << >>)
  ELSE IF fail = "alloc"
  THEN /\ ReturnNull("clone")
       /\ last' = Call("clone", "", 0, nullArg, fail, "alloc_failed", FALSE, << >>)
  ELSE /\ ReturnList(Elems,
                     IF capacity = 0 THEN MVN_LIST_DEFAULT_CAPACITY ELSE capacity,
                     NewBuf, "clone")
       /\ last' = Call("clone", "", 0, nullArg, fail, "clone", TRUE, << >>)

CopyClone ==
  /\ \E nullArg \in {"none", "list"}, fail \in {"none", "alloc"} :
       mvn_list_clone(nullArg, fail)
  /\ UNCHANGED <<bucket_count, buckets, length, node, absMap, listVars, fillVars, isize>>

\* the slots of a buffer seen through another list sharing it
Mirror(d, written) ==
  [k \in DOMAIN d |-> IF k <= Len(written) THEN written[k] ELSE d[k]]

\* a call on the list under test: its writes show in the returned list iff
\* both use the same buffer
OnSource(call) ==
  /\ call
  /\ cdata' = IF cbuf = ABuf THEN Mirror(cdata, data') ELSE cdata
  /\ UNCHANGED <<clength, ccapacity, cbuf, cfrom, isize>>
  /\ UNCHANGED <<bucket_count, buckets, length, node, absMap, fillVars>>

\* lists the clone test starts from: up to CloneMaxLen items over CloneVals
CloneVals == {1, 2}
CloneMaxLen == 2
CloneIndices == 0..CloneMaxLen

CloneInit ==
  \E n \in 0..CloneMaxLen, c \in CopyCaps :
    \E e \in [1..n -> CloneVals] :
      /\ c >= n
      /\ data = [i \in 1..c |-> IF i <= n THEN e[i] ELSE Uninit]
      /\ llength = n
      /\ capacity = c
      /\ bucket_count = 1 /\ buckets = << << >> >> /\ length = 0 /\ node = << >>
      /\ absMap = << >>
      /\ last = Call("init", "", c, "none", "none", "init", TRUE, << >>)
      /\ fillCap = 0 /\ fillN = 0 /\ fillI = 0
      /\ CopyIdle

SourceSet ==
  OnSource(\E index \in CloneIndices, item \in CloneVals : mvn_list_set("none", index, item))

SourcePop == OnSource(mvn_list_pop("none"))

SourcePush ==
  /\ llength < CloneMaxLen
  /\ OnSource(\E item \in CloneVals, fail \in {"none", "realloc"} :
                mvn_list_push("none", item, fail))

\* mvn_list_set / mvn_list_pop on the returned list
mvn_list_set_result(index, item) ==
  IF index >= clength
  THEN /\ last' = Call("result_set", "", item, "none", "none", "invalid", FALSE, <<index>>)
       /\ UNCHANGED <<cdata, clength, ccapacity>>
  ELSE /\ cdata' = [cdata EXCEPT ![index + 1] = item]
       /\ last' = Call("result_set", "", item, "none", "none", "set", TRUE, <<index>>)
       /\ UNCHANGED <<clength, ccapacity>>

mvn_list_pop_result ==
  IF clength = 0
  THEN /\ last' = Call("result_pop", "", 0, "none", "none", "empty", FALSE, << >>)
       /\ UNCHANGED <<cdata, clength, ccapacity>>
  ELSE /\ clength' = clength - 1
       /\ last' = Call("result_pop", "", 0, "none", "none", "pop", TRUE, <<cdata[clength]>>)
       /\ UNCHANGED <<cdata, ccapacity>>

\* a call on the returned list: its writes show in the list under test iff
\* both use the same buffer
OnResult(call) ==
  /\ cbuf # NoBuf
  /\ call
  /\ data' = IF cbuf = ABuf THEN Mirror(data, cdata') ELSE data
  /\ UNCHANGED <<llength, capacity, cbuf, cfrom, isize>>
  /\ UNCHANGED <<bucket_count, buckets, length, node, absMap, fillVars>>

ResultSet ==
  OnResult(\E index \in CloneIndices, item \in CloneVals : mvn_list_set_result(index, item))

ResultPop == OnResult(mvn_list_pop_result)

CloneNext ==
  CopyClone \/ SourceSet \/ SourcePop \/ SourcePush \/ ResultSet \/ ResultPop

CloneSpec == CloneInit /\ [][CloneNext]_vars

\* the swap loop run for i < length instead of i < length / 2
RECURSIVE SwapAll(_, _, _)
SwapAll(d, i, n) ==
  IF i >= n THEN d
  ELSE SwapAll([d EXCEPT ![i + 1] = d[n - i], ![n - i] = d[i + 1]], i + 1, n)

\* for (i = 0; i < length / 2; i++) swap slots i and length - 1 - i
RECURSIVE SwapLoop(_, _, _)
SwapLoop(d, i, n) ==
  IF i >= n \div 2 THEN d
  ELSE SwapLoop([d EXCEPT ![i + 1] = d[n - i], ![n - i] = d[i + 1]], i + 1, n)

\* mvn_list_reverse(list); fail: the malloc of the temporary fails, which
\* can only happen when item_size exceeds the stack buffer
mvn_list_reverse(nullArg, fail) ==
  IF nullArg = "list"
  THEN /\ last' = Call("reverse", "", 0, nullArg, fail, "invalid", FALSE, << >>)
       /\ UNCHANGED <<data, llength, capacity>>
  ELSE IF llength <= 1
  THEN /\ last' = Call("reverse", "", 0, nullArg, fail, "trivial", TRUE, << >>)
       /\ UNCHANGED <<data, llength, capacity>>
  ELSE IF isize > MVN_LIST_STACK_BUFFER_SIZE /\ fail = "malloc"
  THEN /\ last' = Call("reverse", "", 0, nullArg, fail, "malloc_failed", FALSE, << >>)
       /\ UNCHANGED <<data, llength, capacity>>
  ELSE /\ data' = SwapLoop(data, 0, llength)
       /\ last' = Call("reverse", "", 0, nullArg, fail, "reverse", TRUE, << >>)
       /\ UNCHANGED <<llength, capacity>>

ListReverse ==
  /\ \E nullArg \in {"none", "list"}, fail \in {"none", "malloc"} :
       mvn_list_reverse(nullArg, fail)
  /\ UNCHANGED <<bucket_count, buckets, length, node, absMap, fillVars, copyVars>>

\* the test comparators compare_ints and compare_ints_reverse
Comparators == {"compare_ints", "compare_ints_reverse"}
Compare(cmp, a, b) == IF cmp = "compare_ints" THEN a - b ELSE b - a

\* SDL_qsort(base, n, size, compare) (SDL3 library): leaves the n items in
\* non-decreasing order under compare; computed by insertion
RECURSIVE InsertSorted(_, _, _)
InsertSorted(x, s, cmp) ==
  IF s = << >> THEN <<x>>
  ELSE IF Compare(cmp, x, Head(s)) <= 0 THEN <<x>> \o s
  ELSE <<Head(s)>> \o InsertSorted(x, Tail(s), cmp)

RECURSIVE SortItems(_, _)
SortItems(s, cmp) ==
  IF s = << >> THEN << >> ELSE InsertSorted(Head(s), SortItems(Tail(s), cmp), cmp)

SDL_qsort(d, n, cmp) ==
  LET sorted == SortItems(SubSeq(d, 1, n), cmp)
  IN  [k \in DOMAIN d |-> IF k <= n THEN sorted[k] ELSE d[k]]

\* the early return taken for lists of up to two items
SortTrivialPair(n) == n <= 2

SortTrivial(n) == n <= 1

\* mvn_list_sort(list, compare); nullArg names the NULL argument
mvn_list_sort(nullArg, cmp) ==
  IF nullArg # "none"
  THEN /\ last' = Call("sort", cmp, 0, nullArg, "none", "invalid", FALSE, << >>)
       /\ UNCHANGED <<data, llength, capacity>>
  ELSE IF SortTrivial(llength)
  THEN /\ last' = Call("sort", cmp, 0, nullArg, "none", "trivial", TRUE, << >>)
       /\ UNCHANGED <<data, llength, capacity>>
  ELSE /\ data' = SDL_qsort(data, llength, cmp)
       /\ last' = Call("sort", cmp, 0, nullArg, "none", "sort", TRUE, << >>)
       /\ UNCHANGED <<llength, capacity>>

ListSort ==
  /\ \E nullArg \in {"none", "list", "compare"}, cmp \in Comparators :
       mvn_list_sort(nullArg, cmp)
  /\ UNCHANGED <<bucket_count, buckets, length, node, absMap, fillVars, copyVars>>

OrderNext == ListReverse \/ ListSort

OrderSpec == CopyInit /\ [][OrderNext]_vars

\* the items of d whose calls in ans (indices off + 1 .. off + n) returned 1
FilterPass(d, n, ans, off) ==
  LET idx == SelectSeq([k \in 1..n |-> k], LAMBDA k : ans[off + k] = 1)
  IN  [j \in 1..Len(idx) |-> d[idx[j]]]

\* the memcpy shortcut taken whenever some item matched
FullCopyAny(m) == m > 0

\* the memcpy shortcut: every item matched in the counting pass
FullCopy(m) == m = llength

\* mvn_list_filter(list, filter, user_data): ans[k] is the filter's answer
\* (1 = true) on its k-th call; calls 1..length are the counting pass,
\* calls length+1..2*length the copying pass (made only when
\* 0 < match_count < length); fail: mvn_list_init fails. Copies past the
\* allocated capacity are kept in clength.
mvn_list_filter(nullArg, kind, ans, fail) ==
  LET match_count == Len(FilterPass(data, llength, ans, 0))
  IN
  IF nullArg # "none"
  THEN /\ ReturnNull("filter")
       /\ last' = Call("filter", kind, 0, nullArg, fail, "invalid", FALSE, ans)
  ELSE IF fail = "alloc"
  THEN /\ ReturnNull("filter")
       /\ last' = Call("filter", kind, 0, nullArg, fail, "alloc_failed", FALSE, ans)
  ELSE /\ ReturnList(IF match_count = 0 THEN << >>
                     ELSE IF FullCopy(match_count) THEN Elems
                     ELSE FilterPass(data, llength, ans, llength),
                     IF match_count > 0 THEN match_count ELSE MVN_LIST_DEFAULT_CAPACITY,
                     NewBuf, "filter")
       /\ last' = Call("filter", kind, 0, nullArg, fail, "filter", TRUE, ans)

\* a predicate answering by item value (item in P), same answer in both passes
FilterPure ==
  /\ \E nullArg \in {"none", "list", "filter"}, P \in SUBSET OpsVals,
        fail \in {"none", "alloc"} :
       LET a == [k \in 1..llength |-> IF data[k] \in P THEN 1 ELSE 0]
       IN  mvn_list_filter(nullArg, "pure", a \o a, fail)
  /\ UNCHANGED <<bucket_count, buckets, length, node, absMap, listVars, fillVars, isize>>

\* a predicate whose answers depend on state kept in user_data
FilterStateful ==
  /\ \E ans \in [1..(2 * llength) -> {0, 1}] :
       mvn_list_filter("none", "stateful", ans, "none")
  /\ UNCHANGED <<bucket_count, buckets, length, node, absMap, listVars, fillVars, isize>>

FilterNext == FilterPure \/ FilterStateful

FilterSpec == CopyInit /\ [][FilterNext]_vars

\* the list operations together: items over AllVals, item_size from
\* ItemSizes, growth stopped once length reaches AllMaxLen
AllVals == {1, 2}
AllMaxLen == 3
AllIndices == 0..AllMaxLen
BatchItems == UNION {[1..n -> AllVals] : n \in 0..2}

AllInit ==
  \E cap \in ListInitCaps, sz \in ItemSizes :
    LET c == IF cap = 0 THEN MVN_LIST_DEFAULT_CAPACITY ELSE cap
    IN  /\ data = [i \in 1..c |-> Uninit]
        /\ llength = 0
        /\ capacity = c
        /\ bucket_count = 1 /\ buckets = << << >> >> /\ length = 0 /\ node = << >>
        /\ absMap = << >>
        /\ last = Call("init", "", cap, "none", "none", "init", TRUE, << >>)
        /\ fillCap = 0 /\ fillN = 0 /\ fillI = 0
        /\ isize = sz /\ cdata = << >> /\ clength = 0 /\ ccapacity = 0
        /\ cbuf = NoBuf /\ cfrom = "none"

\* the batch copy writing only the first item
BatchFirstOnly(d, items) ==
  [k \in DOMAIN d |-> IF k = llength + 1 THEN items[1] ELSE d[k]]

\* SDL_memcpy(data + length, items, count): slots length+1..length+count
BatchWrite(d, items) ==
  [k \in DOMAIN d |-> IF k > llength /\ k <= llength + Len(items)
                      THEN items[k - llength] ELSE d[k]]

\* mvn_list_push_batch(list, items, count); fail: the realloc fails
mvn_list_push_batch(nullArg, items, fail) ==
  LET count == Len(items)
      grow == llength + count > capacity
      d == IF grow
           THEN mvn_list_resize(data, llength, capacity,
                                (llength + count) * MVN_LIST_GROWTH_FACTOR)
           ELSE data
  IN
  IF nullArg # "none" \/ count = 0
  THEN /\ last' = Call("push_batch", "", count, nullArg, fail, "invalid", FALSE, items)
       /\ UNCHANGED <<data, llength, capacity>>
  ELSE IF grow /\ fail = "realloc"
  THEN /\ last' = Call("push_batch", "", count, nullArg, fail, "grow_failed", FALSE, items)
       /\ UNCHANGED <<data, llength, capacity>>
  ELSE /\ data' = BatchWrite(d, items)
       /\ llength' = llength + count
       /\ capacity' = Len(d)
       /\ last' = Call("push_batch", "", count, nullArg, fail,
                       IF grow THEN "grow" ELSE "batch", TRUE, items)

AllPushBatch ==
  /\ llength < AllMaxLen
  /\ \E nullArg \in {"none", "list", "items"}, items \in BatchItems,
        fail \in {"none", "realloc"} :
       mvn_list_push_batch(nullArg, items, fail)
  /\ UNCHANGED <<bucket_count, buckets, length, node, absMap, fillVars, copyVars>>

\* mvn_list_reserve(list, capacity)
mvn_list_reserve(nullArg, cap, fail) ==
  IF nullArg = "list"
  THEN /\ last' = Call("reserve", "", 0, nullArg, fail, "invalid", FALSE, <<cap>>)
       /\ UNCHANGED <<data, llength, capacity>>
  ELSE IF cap <= capacity
  THEN /\ last' = Call("reserve", "", 0, nullArg, fail, "enough", TRUE, <<cap>>)
       /\ UNCHANGED <<data, llength, capacity>>
  ELSE ResizeAs("reserve", cap, nullArg, cap, fail)

\* mvn_list_clear(list)
mvn_list_clear(nullArg) ==
  IF nullArg = "list"
  THEN /\ last' = Call("clear", "", 0, nullArg, "none", "invalid", FALSE, << >>)
       /\ UNCHANGED <<data, llength, capacity>>
  ELSE /\ llength' = 0
       /\ last' = Call("clear", "", 0, nullArg, "none", "clear", TRUE, << >>)
       /\ UNCHANGED <<data, capacity>>

\* mvn_list_trim(list)
mvn_list_trim(nullArg, fail) ==
  IF nullArg = "list"
  THEN /\ last' = Call("trim", "", 0, nullArg, fail, "invalid", FALSE, <<0>>)
       /\ UNCHANGED <<data, llength, capacity>>
  ELSE IF llength = 0
  THEN ResizeAs("trim", 0, nullArg, MVN_LIST_DEFAULT_CAPACITY, fail)
  ELSE IF capacity > llength
  THEN ResizeAs("trim", 0, nullArg, llength, fail)
  ELSE /\ last' = Call("trim", "", 0, nullArg, fail, "tight", TRUE, <<0>>)
       /\ UNCHANGED <<data, llength, capacity>>

AllPush ==
  /\ llength < AllMaxLen
  /\ \E nullArg \in {"none", "list", "item"}, item \in AllVals, fail \in {"none", "realloc"} :
       mvn_list_push(nullArg, item, fail)
  /\ UNCHANGED <<bucket_count, buckets, length, node, absMap, fillVars, copyVars>>

AllUnshift ==
  /\ llength < AllMaxLen
  /\ \E nullArg \in {"none", "list", "item"}, item \in AllVals, fail \in {"none", "realloc"} :
       mvn_list_unshift(nullArg, item, fail)
  /\ UNCHANGED <<bucket_count, buckets, length, node, absMap, fillVars, copyVars>>

AllSet ==
  /\ \E nullArg \in {"none", "list", "item"}, index \in AllIndices, item \in AllVals :
       mvn_list_set(nullArg, index, item)
  /\ UNCHANGED <<bucket_count, buckets, length, node, absMap, fillVars, copyVars>>

AllReserve ==
  /\ \E nullArg \in {"none", "list"}, cap \in ResizeReqs, fail \in {"none", "realloc"} :
       mvn_list_reserve(nullArg, cap, fail)
  /\ UNCHANGED <<bucket_count, buckets, length, node, absMap, fillVars, copyVars>>

AllClear ==
  /\ \E nullArg \in {"none", "list"} : mvn_list_clear(nullArg)
  /\ UNCHANGED <<bucket_count, buckets, length, node, absMap, fillVars, copyVars>>

AllTrim ==
  /\ \E nullArg \in {"none", "list"}, fail \in {"none", "realloc"} :
       mvn_list_trim(nullArg, fail)
  /\ UNCHANGED <<bucket_count, buckets, length, node, absMap, fillVars, copyVars>>

AllNext ==
  \/ AllPush \/ ListPop \/ AllUnshift \/ ListShift \/ AllSet \/ AllPushBatch
  \/ ListResize \/ AllReserve \/ AllClear \/ AllTrim \/ ListReverse

AllSpec == AllInit /\ [][AllNext]_vars

(***************************************************************************)
(* mvn_string_split (mvn-string.c).  A C string is the sequence of its    *)
(* (non-NUL) characters, the characters drawn from SplitChars.            *)
(***************************************************************************)
SplitChars == {1, 2}
MaxStrLen == 4
SplitStrs == UNION {[1..n -> SplitChars] : n \in 0..MaxStrLen}
SplitDelims == UNION {[1..n -> SplitChars] : n \in 0..2}

\* SDL_strstr(s + i - 1, d): the 1-based position of the first occurrence of
\* d at or after position i, 0 when there is none
RECURSIVE StrStr(_, _, _)
StrStr(s, d, i) ==
  IF i + Len(d) - 1 > Len(s) THEN 0
  ELSE IF SubSeq(s, i, i + Len(d) - 1) = d THEN i
  ELSE StrStr(s, d, i + 1)

\* the split loop advancing start by one character past each match
RECURSIVE SplitPartsOverlap(_, _, _)
SplitPartsOverlap(s, d, start) ==
  LET e == StrStr(s, d, start)
  IN  IF e = 0 THEN <<SubSeq(s, start, Len(s))>>
      ELSE <<SubSeq(s, start, e - 1)>> \o SplitPartsOverlap(s, d, e + 1)

\* the split loop: a part for each match, start moved past the delimiter,
\* then the final part (always added)
RECURSIVE SplitParts(_, _, _)
SplitParts(s, d, start) ==
  LET e == StrStr(s, d, start)
  IN  IF e = 0 THEN <<SubSeq(s, start, Len(s))>>
      ELSE <<SubSeq(s, start, e - 1)>> \o SplitParts(s, d, e + Len(d))

\* mvn_string_split(str, delimiter); nullArg: the NULL argument; fail: an
\* allocation (the list, a part or a push) fails and NULL is returned
mvn_string_split(nullArg, s, d, fail) ==
  IF nullArg # "none"
  THEN last' = Call("split", "", 0, nullArg, fail, "invalid", FALSE, <<s, d, << >>>>)
  ELSE IF fail = "alloc"
  THEN last' = Call("split", "", 0, nullArg, fail, "alloc_failed", FALSE, <<s, d, << >>>>)
  ELSE IF Len(d) = 0 \/ Len(s) = 0
  THEN last' = Call("split", "", 1, nullArg, fail, "whole", TRUE, <<s, d, <<s>>>>)
  ELSE LET parts == SplitParts(s, d, 1)
       IN  last' = Call("split", "", Len(parts), nullArg, fail, "split", TRUE, <<s, d, parts>>)

SplitInit ==
  /\ bucket_count = 1 /\ buckets = << << >> >> /\ length = 0 /\ node = << >>
  /\ absMap = << >>
  /\ last = Call("none", "", 0, "none", "none", "none", FALSE, << >>)
  /\ data = << >> /\ llength = 0 /\ capacity = 0
  /\ fillCap = 0 /\ fillN = 0 /\ fillI = 0
  /\ CopyIdle

StringSplit ==
  /\ \E nullArg \in {"none", "str", "delimiter"}, s \in SplitStrs, d \in SplitDelims,
        fail \in {"none", "alloc"} :
       mvn_string_split(nullArg, s, d, fail)
  /\ UNCHANGED <<bucket_count, buckets, length, node, absMap, listVars, fillVars, copyVars>>

SplitNext == StringSplit

SplitSpec == SplitInit /\ [][SplitNext]_vars

(***************************************************************************)
(* mvn_load_random_sequence (mvn-utils.c): one call, the list it builds in *)
(* data / llength / capacity, last.out = <<count, min, max>>, last.branch  *)
(* "loop" while the while loop runs and "done" once it returned the list. *)
(***************************************************************************)
RandCounts == {0, 1, 2, 3}
RandMins == {-1, 0, 1}
RandMaxs == {-1, 0, 1, 2, 3}

\* SDL_rand(n) (SDL3): a value in [0, n) for n > 0; 0 when n <= 0
SDL_rand(n) == IF n > 0 THEN 0..(n - 1) ELSE {0}

\* the value mvn_get_random_value(min, max) computes from the draw r of
\* SDL_rand(max) (min <= max here)
RandomValue(r, min, max) == min + (r % (max - min + 1))

RandInit ==
  /\ bucket_count = 1 /\ buckets = << << >> >> /\ length = 0 /\ node = << >>
  /\ absMap = << >>
  /\ last = Call("none", "", 0, "none", "none", "none", FALSE, << >>)
  /\ data = << >> /\ llength = 0 /\ capacity = 0
  /\ fillCap = 0 /\ fillN = 0 /\ fillI = 0
  /\ CopyIdle

\* the checks, then MVN_LIST_INIT(int32_t, count); fail: the init fails
mvn_load_random_sequence(count, min, max, fail) ==
  IF count <= 0 \/ min > max \/ max - min + 1 < count
  THEN /\ last' = Call("random_sequence", "", 0, "none", fail, "invalid", FALSE, <<count, min, max>>)
       /\ UNCHANGED <<data, llength, capacity>>
  ELSE IF fail = "alloc"
  THEN /\ last' = Call("random_sequence", "", 0, "none", fail, "alloc_failed", FALSE, <<count, min, max>>)
       /\ UNCHANGED <<data, llength, capacity>>
  ELSE /\ data' = [i \in 1..count |-> Uninit]
       /\ llength' = 0
       /\ capacity' = count
       /\ last' = Call("random_sequence", "", 0, "none", fail, "loop", FALSE, <<count, min, max>>)

RandCall ==
  /\ last.op = "none"
  /\ \E count \in RandCounts, min \in RandMins, max \in RandMaxs, fail \in {"none", "alloc"} :
       mvn_load_random_sequence(count, min, max, fail)
  /\ UNCHANGED <<bucket_count, buckets, length, node, absMap, fillVars, copyVars>>

\* one iteration of the while loop, SDL_rand(max) returning r: the value is
\* pushed unless already in the list (capacity count, so push never grows)
RandIter(r) ==
  /\ last.branch = "loop"
  /\ LET count == last.out[1]
         min == last.out[2]
         max == last.out[3]
         value == RandomValue(r, min, max)
         exists == \E i \in 1..llength : data[i] = value
     IN  /\ r \in SDL_rand(max)
         /\ IF exists
            THEN UNCHANGED <<data, llength, last>>
            ELSE /\ data' = [data EXCEPT ![llength + 1] = value]
                 /\ llength' = llength + 1
                 /\ last' = IF llength + 1 = count
                            THEN [last EXCEPT !.branch = "done", !.ok = TRUE]
                            ELSE last
  /\ UNCHANGED <<capacity, bucket_count, buckets, length, node, absMap, fillVars, copyVars>>

RandDraws == 0..3

RandNext == RandCall \/ \E r \in RandDraws : RandIter(r)

RandSpec == RandInit /\ [][RandNext]_vars

\* a fair random source: every draw SDL_rand can return again and again is
\* eventually returned
RandFairSpec == RandSpec /\ WF_vars(RandCall) /\ \A r \in RandDraws : SF_vars(RandIter(r))

(***************************************************************************)
(* Properties of the hash map                                              *)
(***************************************************************************)
Range(f) == {f[i] : i \in DOMAIN f}

CountIn(s, v) == Cardinality({i \in DOMAIN s : s[i] = v})

LiveKeys == {k \in MapKeys : absMap[k] # NoValue}

\* C1: mvn_hmap_get(k) returns the value of the last successful set(k, v)
\* not followed by a successful delete(k), NULL otherwise, and
\* mvn_hmap_length counts those live keys, across resizes.
C1_AbstractMap ==
  /\ \A k \in MapKeys : GetVal(k) = absMap[k]
  /\ length = Cardinality(LiveKeys)

C1_Witness ==
  /\ last.op = "delete" /\ last.ok
  /\ bucket_count \in {2, 4, 6}
  /\ length >= 1

C3_Delete ==
  [][\A k \in MapKeys :
       (last'.op = "delete" /\ last'.nullArg = "none" /\ last'.key = k)
         => IF mvn_hmap_get(k) # NULL
            THEN /\ last'.ok
                 /\ length' = length - 1
                 /\ (mvn_hmap_get(k))' = NULL
                 /\ \A j \in MapKeys \ {k} : (GetVal(j))' = GetVal(j)
            ELSE /\ ~last'.ok
                 /\ UNCHANGED <<length, bucket_count, buckets, node>>]_vars

C3_Witness == last.op = "delete" /\ last.ok /\ length >= 1

\* C4 (original): the set call whose insertion takes length above
\* bucket_count * 0.75 inserts into the doubled table.
C4_GrowBeforeTippingInsert_Original ==
  [][(last'.op = "set" /\ length' = length + 1
      /\ 4 * length <= 3 * bucket_count /\ 4 * length' > 3 * bucket_count)
       => bucket_count' = 2 * bucket_count]_vars

\* C4 (amended): a set call with valid arguments doubles bucket_count exactly
\* when length already exceeds bucket_count * 0.75 at the call (before its
\* insertion, and unless the resize allocation fails); the insertion that
\* takes length above the threshold goes into the old table.
C4_GrowOnNextSet ==
  [][(last'.op = "set" /\ last'.nullArg = "none")
       => IF 4 * length > 3 * bucket_count
          THEN IF last'.branch = "resize_failed"
               THEN bucket_count' = bucket_count
               ELSE bucket_count' = 2 * bucket_count
          ELSE bucket_count' = bucket_count]_vars

C4_Witness ==
  /\ last.op = "set" /\ last.branch = "insert"
  /\ 4 * length > 3 * bucket_count
  /\ 4 * (length - 1) <= 3 * bucket_count

\* C6: a resize relinks the entry nodes: every key live before it is found
\* at the same entry address afterwards, and no entry is lost or duplicated.
C6_ResizeTransfers ==
  [][bucket_count' # bucket_count =>
       /\ \A k \in MapKeys : mvn_hmap_get(k) # NULL => (mvn_hmap_get(k))' = mvn_hmap_get(k)
       /\ Range(Walk(buckets)) \subseteq Range(Walk(buckets'))
       /\ Len(Walk(buckets')) = Cardinality(Range(Walk(buckets')))
       /\ Len(Walk(buckets')) = length']_vars

C6_Witness == last.op = "set" /\ last.ok /\ bucket_count \in {4, 6} /\ length >= 3

C8_FailedSetUnchanged ==
  [][(last'.op = "set" /\ ~last'.ok) =>
       /\ length' = length
       /\ bucket_count' = bucket_count
       /\ \A k \in MapKeys : (GetVal(k))' = GetVal(k)]_vars

\* C5: inserting distinct keys only ever doubles bucket_count, every key
\* inserted so far stays retrievable with its value, and once the load factor
\* has been crossed bucket_count has grown: 20 keys into 16 buckets end with
\* more than 16 buckets, 50 keys into 2 buckets with length 50, every key
\* mapping to its value.
C5_GrowKeepsEntries ==
  /\ length = fillI
  /\ \A i \in 0..fillI - 1 : GetVal(FillKey(i)) = i * 10
  /\ bucket_count \in {FillBc0 * (2 ^ j) : j \in 0..7}
  /\ fillI = fillN => bucket_count > FillBc0

C5_Witness == fillI = fillN /\ fillN = MaxFill /\ fillCap = 2 /\ bucket_count > 2

\* C10: a successful push(x) appends x after the previous elements (length
\* grows by one, earlier elements unchanged); a successful pop returns the
\* last element and removes it, restoring the contents before that push.
C10_PushPop ==
  [][/\ (last'.op = "push" /\ last'.ok) =>
          /\ llength' = llength + 1
          /\ SubSeq(data', 1, llength') = Append(Elems, last'.val)
     /\ (last'.op = "pop" /\ last'.ok /\ last'.nullArg = "none") =>
          /\ llength > 0
          /\ last'.out = <<data[llength]>>
          /\ llength' = llength - 1
          /\ SubSeq(data', 1, llength') = SubSeq(Elems, 1, llength - 1)]_vars

C10_Witness == last.op = "pop" /\ last.ok /\ capacity = 8 /\ llength = 4

\* C9 (original): mvn_list_init and mvn_hmap_init return NULL when
\* item_size == 0 and otherwise (allocations succeeding) an empty container,
\* initial_capacity 0 giving 8 list slots / 16 buckets, all buckets empty.
C9_Create_Original ==
  last.op \in {"list_init", "hmap_init"} =>
    LET dflt == IF last.op = "list_init" THEN MVN_LIST_DEFAULT_CAPACITY ELSE MVN_HMAP_DEFAULT_CAPACITY
        cap == IF last.val.initial_capacity = WordOf(0) THEN WordOf(dflt) ELSE last.val.initial_capacity
    IN  /\ last.val.item_size = 0 => ~last.ok
        /\ (last.val.item_size # 0 /\ last.fail = "none") =>
             /\ last.ok
             /\ last.out[1].length = 0
             /\ last.out[1].capacity = cap
             /\ last.op = "hmap_init" => \A i \in DOMAIN last.out[1].buckets : last.out[1].buckets[i] = << >>

\* C9 (amended): as above, except that mvn_hmap_init also returns NULL when
\* initial_capacity > SIZE_MAX / sizeof(mvn_hmap_entry_t *).
C9_Create ==
  last.op \in {"list_init", "hmap_init"} =>
    LET dflt == IF last.op = "list_init" THEN MVN_LIST_DEFAULT_CAPACITY ELSE MVN_HMAP_DEFAULT_CAPACITY
        cap == IF last.val.initial_capacity = WordOf(0) THEN WordOf(dflt) ELSE last.val.initial_capacity
        tooBig == last.op = "hmap_init" /\ GtWord(cap, DivWord(SIZE_MAX, PTR_SIZE))
    IN  /\ (last.val.item_size = 0 \/ tooBig) => ~last.ok
        /\ (last.val.item_size # 0 /\ ~tooBig /\ last.fail = "none") =>
             /\ last.ok
             /\ last.out[1].length = 0
             /\ last.out[1].capacity = cap
             /\ last.op = "hmap_init" =>
                  /\ Len(last.out[1].buckets) = WordToInt(cap)
                  /\ \A i \in DOMAIN last.out[1].buckets : last.out[1].buckets[i] = << >>

C9_Witness ==
  last.op = "hmap_init" /\ last.ok /\ last.val.initial_capacity = WordOf(0)

\* C11: a successful unshift(x) puts x at index 0 and moves every element
\* i to i + 1 (length + 1); a successful shift returns element 0 and moves
\* the rest down, restoring the contents before that unshift.
C11_UnshiftShift ==
  [][/\ (last'.op = "unshift" /\ last'.ok) =>
          /\ llength' = llength + 1
          /\ SubSeq(data', 1, llength') = <<last'.val>> \o Elems
     /\ (last'.op = "shift" /\ last'.ok /\ last'.nullArg = "none") =>
          /\ llength > 0
          /\ last'.out = <<data[1]>>
          /\ llength' = llength - 1
          /\ SubSeq(data', 1, llength') = Tail(Elems)]_vars

C11_Witness == last.op = "shift" /\ last.ok /\ capacity = 8 /\ llength >= 2

\* C12: pop and shift on an empty or NULL list return false, leave length,
\* capacity and contents unmodified and write nothing to the output.
C12_EmptyPopShift ==
  [][(last'.op \in {"pop", "shift"} /\ (llength = 0 \/ last'.nullArg = "list")) =>
       /\ ~last'.ok
       /\ last'.out = << >>
       /\ UNCHANGED <<data, llength, capacity>>]_vars

C12_Witness == last.op \in {"pop", "shift"} /\ ~last.ok /\ llength = 0 /\ capacity = 8

\* C13: get and set are bounds-checked against length: for i >= length get
\* returns NULL and set returns false without effect; for i < length set
\* replaces exactly element i, and get(i) then returns it.
C13_GetSetBounds ==
  [][/\ \A i \in ListIndices : i >= llength => mvn_list_get(i) = << >>
     /\ last'.op = "list_set" =>
          \E i \in ListIndices, x \in OpsVals :
            /\ last'.out = <<i>> /\ last'.val = x
            /\ IF last'.nullArg = "none" /\ i < llength
              THEN /\ last'.ok
                   /\ data' = [data EXCEPT ![i + 1] = x]
                   /\ (mvn_list_get(i))' = <<x>>
                   /\ UNCHANGED <<llength, capacity>>
              ELSE /\ ~last'.ok
                   /\ UNCHANGED <<data, llength, capacity>>]_vars

C13_Witness ==
  /\ last.op = "list_set" /\ ~last.ok /\ last.nullArg = "none"
  /\ last.out[1] >= llength /\ last.out[1] < capacity

\* C14 (original): a successful push / unshift made with length >= capacity
\* doubles capacity (8 if it was 0); with length < capacity it keeps it.
C14_Growth_Original ==
  [][(last'.op \in {"push", "unshift"} /\ last'.ok) =>
       capacity' = IF llength >= capacity
                   THEN (IF capacity = 0 THEN MVN_LIST_DEFAULT_CAPACITY ELSE 2 * capacity)
                   ELSE capacity]_vars

\* C14 (amended): a push / unshift made with length >= capacity either fails
\* (realloc failing, capacity unchanged) or leaves capacity
\* max(2 * capacity, 8); with length < capacity it keeps capacity.
C14_Growth ==
  [][(last'.op \in {"push", "unshift"} /\ last'.nullArg = "none") =>
       IF llength >= capacity
       THEN IF last'.ok
            THEN capacity' = IF 2 * capacity < MVN_LIST_DEFAULT_CAPACITY
                             THEN MVN_LIST_DEFAULT_CAPACITY ELSE 2 * capacity
            ELSE capacity' = capacity
       ELSE capacity' = capacity /\ last'.ok]_vars

C14_Witness == last.op \in {"push", "unshift"} /\ last.branch = "grow" /\ capacity = 8 /\ llength = 2

\* C15 (original): a successful resize(n) keeps length and the elements,
\* never leaves capacity below length, and for n < 8 leaves capacity >= 8.
C15_Resize_Original ==
  [][(last'.op = "resize" /\ last'.ok) =>
       /\ llength' = llength
       /\ SubSeq(data', 1, llength') = Elems
       /\ capacity' >= llength'
       /\ last'.out[1] < MVN_LIST_DEFAULT_CAPACITY => capacity' >= MVN_LIST_DEFAULT_CAPACITY]_vars

\* C15 (amended): resize(n) never changes length or the elements and never
\* leaves capacity below length; with m = max(n, length): m = capacity
\* changes nothing, otherwise a successful call sets capacity to m, raised
\* to 8 when 0 < m < 8 (m = 0, an empty list resized to 0, gives capacity 0);
\* a failing realloc leaves capacity unchanged.
C15_Resize ==
  [][(last'.op = "resize") =>
       /\ llength' = llength
       /\ SubSeq(data', 1, llength') = Elems
       /\ capacity' >= llength'
       /\ \E n \in ResizeReqs :
            /\ last'.out = <<n>>
            /\ LET m == IF n < llength THEN llength ELSE n
               IN  IF last'.ok /\ m # capacity
                   THEN capacity' = IF m > 0 /\ m < MVN_LIST_DEFAULT_CAPACITY
                                    THEN MVN_LIST_DEFAULT_CAPACITY ELSE m
                   ELSE capacity' = capacity]_vars

C15_Witness == last.op = "resize" /\ last.branch = "realloc" /\ llength >= 1 /\ capacity = 8 /\ last.out = <<3>>

\* C16: mvn_list_slice(L, s, e), with e = (size_t)-1 or e > length meaning
\* length, returns NULL iff s > length or s > resolved e (allocation
\* succeeding); otherwise a new list of length resolved_e - s whose element
\* i is L[s+i]; L is unchanged.
C16_Slice ==
  [][last'.op = "slice" =>
       /\ UNCHANGED listVars
       /\ \E st \in SliceStarts, en \in SliceEnds :
            /\ last'.out = <<st, en>>
            /\ LET re == IF en = SliceEndSentinel \/ en > llength THEN llength ELSE en
               IN  /\ (last'.nullArg = "none" /\ last'.fail = "none") =>
                        (cbuf' = NoBuf <=> (st > llength \/ st > re))
                   /\ cbuf' # NoBuf =>
                        /\ cbuf' # ABuf
                        /\ clength' = re - st
                        /\ \A k \in 1..clength' : cdata'[k] = data[st + k]]_vars

C16_Witness ==
  last.op = "slice" /\ cbuf = NewBuf /\ clength = 2 /\ last.out[1] = 1 /\ last.out[2] = SliceEndSentinel

\* C17: mvn_list_concat(A, B) returns NULL if either list is NULL or the
\* item sizes differ; otherwise (allocation succeeding) a new list of length
\* len(A)+len(B) holding A's items then B's, A unchanged.
C17_Concat ==
  [][last'.op = "concat" =>
       /\ UNCHANGED listVars
       /\ (last'.nullArg # "none" \/ last'.val # isize) => cbuf' = NoBuf
       /\ (last'.nullArg = "none" /\ last'.val = isize /\ last'.fail = "none") => cbuf' = NewBuf
       /\ cbuf' # NoBuf =>
            /\ clength' = llength + Len(last'.out)
            /\ \A k \in 1..llength : cdata'[k] = data[k]
            /\ \A k \in 1..Len(last'.out) : cdata'[llength + k] = last'.out[k]]_vars

C17_Witness == last.op = "concat" /\ cbuf = NewBuf /\ llength >= 1 /\ Len(last.out) >= 1

\* C18 (original): a successful clone has A's length, items and capacity,
\* and afterwards mutations of either list never change the other.
SourceOps == {"list_set", "pop", "push", "reverse", "sort"}
ResultOps == {"result_set", "result_pop"}

C19_Reverse ==
  [][(last'.op = "reverse" /\ last'.nullArg = "none" /\ last'.ok) =>
       /\ llength' = llength /\ capacity' = capacity
       /\ \A k \in 1..llength : data'[k] = data[llength + 1 - k]
       /\ llength <= 1 => data' = data
       /\ SwapLoop(data', 0, llength') = data]_vars

C19_Witness == last.op = "reverse" /\ last.branch = "reverse" /\ llength = 3 /\ data[1] # data[3]

\* C20: mvn_list_sort(L, cmp) with a total-order comparator leaves L a
\* permutation of its items, non-decreasing under cmp, length unchanged; it
\* returns false for a NULL list or comparator and is a no-op for length <= 1.
C20_Sort ==
  [][last'.op = "sort" =>
       /\ llength' = llength /\ capacity' = capacity
       /\ last'.nullArg # "none" => (~last'.ok /\ data' = data)
       /\ last'.nullArg = "none" =>
            /\ last'.ok
            /\ \A v \in OpsVals :
                 CountIn(SubSeq(data', 1, llength), v) = CountIn(Elems, v)
            /\ \A k \in 1..(llength - 1) : Compare(last'.key, data'[k], data'[k + 1]) <= 0
            /\ \A k \in (llength + 1)..capacity : data'[k] = data[k]
            /\ llength <= 1 => data' = data]_vars

C20_Witness ==
  last.op = "sort" /\ last.branch = "sort" /\ llength = 2 /\ data[1] # data[2]

\* C21: mvn_list_filter(L, p, ud) with a predicate p of the item returns a
\* new list of exactly the items of L satisfying p, in order (empty, not
\* NULL, when none match; allocation succeeding), and NULL for a NULL list
\* or predicate; L is unchanged.
C21_Filter ==
  [][(last'.op = "filter" /\ last'.key = "pure") =>
       /\ UNCHANGED listVars
       /\ last'.nullArg # "none" => cbuf' = NoBuf
       /\ (last'.nullArg = "none" /\ last'.fail = "none") =>
            /\ cbuf' = NewBuf
            /\ clength' = Cardinality({k \in 1..llength : last'.out[k] = 1})
            /\ \A j \in 1..clength' :
                 \E k \in 1..llength :
                   /\ last'.out[k] = 1
                   /\ Cardinality({i \in 1..k : last'.out[i] = 1}) = j
                   /\ cdata'[j] = data[k]]_vars

C21_Witness ==
  last.op = "filter" /\ last.key = "pure" /\ cbuf = NewBuf /\ llength = 3
  /\ clength = 2 /\ cdata[1] # data[1]

\* C30: mvn_list_filter never writes past the capacity of the list it
\* allocates, for any predicate, including one whose answers differ between
\* the counting and the copying pass: the result's length stays <= capacity.
C30_FilterWithinCapacity == cfrom = "filter" => clength <= ccapacity

\* C22: a successful mvn_list_push_batch(items, count) appends the count
\* items in order after the existing ones, length grows by exactly count,
\* and capacity changes at most once, to at least length + count.
C22_PushBatch ==
  [][(last'.op = "push_batch" /\ last'.ok) =>
       /\ llength' = llength + Len(last'.out)
       /\ \A k \in 1..llength : data'[k] = data[k]
       /\ \A k \in 1..Len(last'.out) : data'[llength + k] = last'.out[k]
       /\ capacity' # capacity => capacity' >= llength + Len(last'.out)
       /\ capacity' >= llength']_vars

C22_Witness ==
  last.op = "push_batch" /\ last.branch = "grow" /\ Len(last.out) = 2 /\ llength >= 3

\* C23: when an allocation of a growing or reallocating list operation
\* fails, the call reports failure and the list keeps its data, length and
\* capacity; a NULL list or NULL required pointer gives false with no side
\* effect (every call returning false leaves the list as it was).
AllocFailBranches == {"grow_failed", "realloc_failed", "malloc_failed"}
RequiredNulls == {"list", "item", "items"}

C23_FailureNoEffect ==
  [][/\ last'.branch \in AllocFailBranches => ~last'.ok
     /\ last'.nullArg \in RequiredNulls => ~last'.ok
     /\ ~last'.ok => UNCHANGED <<data, llength, capacity, isize>>]_vars

C23_Witness ==
  last.branch \in AllocFailBranches /\ last.op \in {"trim", "reserve", "push_batch", "reverse"}
  /\ llength >= 2

\* C27: in every reachable state 0 <= length <= capacity, and no operation
\* changes item_size after init (checked on every step, both states).
C27_ListInvariant ==
  [][/\ 0 <= llength /\ llength <= capacity
     /\ 0 <= llength' /\ llength' <= capacity'
     /\ isize' = isize]_vars

C27_Witness == llength = capacity /\ llength >= 3 /\ isize = 72

\* C26: in every reachable state no two entries have equal keys, every
\* entry lies in bucket hash(key) % bucket_count, every entry is on exactly
\* one chain exactly once (chains are acyclic), and length is the number of
\* entries on the chains.
C26_TableInvariant ==
  /\ Len(buckets) = bucket_count
  /\ Len(Walk(buckets)) = Cardinality(Range(Walk(buckets)))
  /\ Range(Walk(buckets)) = DOMAIN node
  /\ \A i \in 1..bucket_count :
       \A p \in 1..Len(buckets[i]) : BucketIndex(node[buckets[i][p]].key, bucket_count) = i - 1
  /\ \A a, b \in DOMAIN node : a # b => node[a].key # node[b].key
  /\ length = Len(Walk(buckets))

C26_Witness ==
  /\ last.op = "set" /\ last.ok /\ length = 3
  /\ \E i \in 1..bucket_count : Len(buckets[i]) >= 2

\* C28: after any sequence of calls length <= floor(bucket_count * 0.75) + 1,
\* and each call leaves bucket_count or doubles it (so it never decreases
\* and stays the initial count times a power of 2).
C28_LoadBound ==
  [][/\ length <= (3 * bucket_count) \div 4 + 1
     /\ length' <= (3 * bucket_count') \div 4 + 1
     /\ bucket_count' \in {bucket_count, MVN_HMAP_GROWTH_FACTOR * bucket_count}]_vars

C28_Witness == length = (3 * bucket_count) \div 4 + 1 /\ bucket_count = 2

RECURSIVE OccCount(_, _)
OccCount(s, d) ==
  IF Len(s) < Len(d) THEN 0
  ELSE IF SubSeq(s, 1, Len(d)) = d THEN 1 + OccCount(SubSeq(s, Len(d) + 1, Len(s)), d)
  ELSE OccCount(Tail(s), d)

RECURSIVE JoinWith(_, _)
JoinWith(parts, d) ==
  IF Len(parts) = 1 THEN parts[1] ELSE parts[1] \o d \o JoinWith(Tail(parts), d)

C24_Split ==
  [][last'.op = "split" =>
       /\ last'.nullArg # "none" => ~last'.ok
       /\ (last'.nullArg = "none" /\ last'.fail = "none" /\ Len(last'.out[2]) > 0) =>
            /\ last'.ok
            /\ Len(last'.out[3]) = OccCount(last'.out[1], last'.out[2]) + 1
            /\ JoinWith(last'.out[3], last'.out[2]) = last'.out[1]]_vars

C24_Witness ==
  /\ last.op = "split" /\ last.branch = "split" /\ Len(last.out[3]) = 3
  /\ \E i \in 1..3 : last.out[3][i] = << >>

\* C25: mvn_load_random_sequence(count, min, max) returns NULL when
\* count <= 0, min > max or the range holds fewer than count values;
\* otherwise, under a fair random source, it eventually returns a list of
\* count distinct values in [min, max].
C25_Terminates ==
  (last.op = "random_sequence" /\ last.branch = "loop") ~> (last.branch = "done")

====
